---- MODULE Spec2Model ----
(***************************************************************************)
(* InternalTexture (packages/dev/core/src/Materials/Textures/              *)
(* internalTexture.ts): reference counting, rebuild after context loss and  *)
(* the transfer of a hardware texture between descriptors (_swapAndDie).    *)
(*                                                                          *)
(* Descriptor objects are the elements of TexIds; the fields of object t    *)
(* are the record tex[t].  The engine side that the class calls into        *)
(* (texture creation, _releaseTexture, the loaded-textures cache) is kept   *)
(* to what the class relies on.                                             *)
(***************************************************************************)
EXTENDS Integers, Sequences, FiniteSets, TLC

\* ---------------------------------------------------------------- bounds
MaxTex == 3        \* descriptor objects that can be constructed in a run
MaxApp == 2        \* textures the application creates (ownership runs)
MaxShared == 1     \* textures the application creates (reference counting)
MaxRefs == 3       \* incrementReferences is not taken above this count
MaxUnder == 2      \* dispose is not taken below -MaxUnder
MaxRelease == 2    \* _releaseTexture calls per descriptor explored
MaxDim == 2        \* width, height and depth passed to updateSize
MaxDisposed == 2   \* dispose() calls on one derived texture explored

\* ------------------------------------------------------------- constants
NULL == 0          \* Nullable<...> = null (handles, derived textures, caches)

DefaultDepth == 1  \* updateSize(width, height, depth = 1)

TexIds == 1..MaxTex
Handles == 1..MaxTex
Dims == 1..MaxDim

InternalTextureSource ==
    { "Unknown", "Url", "Temp", "Raw", "Dynamic", "RenderTarget",
      "MultiRenderTarget", "Cube", "CubeRaw", "CubePrefiltered", "Raw3D",
      "Raw2DArray", "DepthStencil", "CubeRawRGBD", "Depth" }

\* onRebuildCallback: not registered, or the data it returns
NoCallback == [registered |-> FALSE, isAsync |-> FALSE, isReady |-> FALSE]
Callbacks ==
    { NoCallback } \cup
    { [registered |-> TRUE, isAsync |-> a, isReady |-> r] : a, r \in BOOLEAN }

\* Field initialisers of a descriptor that has not been constructed yet
\* (exists = FALSE) and of a freshly constructed one.
FieldDefaults ==
    [ exists |-> FALSE,
      held |-> FALSE,
      source |-> "Unknown",
      uniqueId |-> 0,
      references |-> 1,
      hardwareTexture |-> NULL,
      isReady |-> FALSE,
      isCube |-> FALSE,
      generateMipMaps |-> FALSE,
      isRGBD |-> FALSE,
      width |-> 0, height |-> 0, depth |-> 0,
      baseWidth |-> 0, baseHeight |-> 0, baseDepth |-> 0,
      size |-> 0,
      cachedCoordinatesMode |-> NULL,
      cachedWrapU |-> NULL,
      cachedWrapV |-> NULL,
      cachedWrapR |-> NULL,
      cachedAnisotropicFilteringLevel |-> NULL,
      onRebuildCallback |-> NoCallback,
      onLoadedObservable |-> 0,
      onErrorObservable |-> 0,
      lodTextureHigh |-> NULL,
      lodTextureMid |-> NULL,
      lodTextureLow |-> NULL,
      irradianceTexture |-> NULL ]

\* ----------------------------------------------------------------- state
VARIABLES
    tex,             \* tex[t]: the fields of descriptor object t
    Counter,         \* InternalTexture._Counter
    nextHandle,      \* handles the engine has allocated so far
    cache,           \* engine.getLoadedTexturesCache(), a list of descriptors
    pending,         \* asynchronous recreations issued and not yet completed
    releaseCalls,    \* releaseCalls[t]: engine._releaseTexture(t) invocations
    handleReleases,  \* handleReleases[h]: times handle h was given to release
    lastUsage,       \* arguments of the last HardwareTextureWrapper.setUsage
    derivedDisposed, \* dispose() calls received by each derived BaseTexture
    call,            \* the operation executed by the last step
    steps            \* what that operation did, in program order

vars == << tex, Counter, nextHandle, cache, pending, releaseCalls,
           handleReleases, lastUsage, derivedDisposed, call, steps >>

MaxDerived == 2
DerivedIds == 1..MaxDerived

\* _lodTextureHigh, _lodTextureMid, _lodTextureLow, _irradianceTexture
Slots ==
    { "lodTextureHigh", "lodTextureMid", "lodTextureLow",
      "irradianceTexture" }

NoUsage ==
    [handle |-> NULL, source |-> "Unknown", generateMipMaps |-> FALSE,
     isCube |-> FALSE, width |-> 0, height |-> 0]

\* Arguments of updateSize as the caller gave them (depth = NULL: omitted)
\* and whether the device accepts them.
NoArgs == [width |-> NULL, height |-> NULL, depth |-> NULL, ok |-> TRUE]

NoCall ==
    [op |-> "none", t |-> NULL, from |-> NULL, sync |-> FALSE,
     args |-> NoArgs]

Called(op, t, from, sync) ==
    [op |-> op, t |-> t, from |-> from, sync |-> sync, args |-> NoArgs]

\* ------------------------------------------------------------ list helpers
RECURSIVE indexOf(_, _, _)
\* Array.prototype.indexOf, 1-based; 0 stands for -1
indexOf(list, x, i) ==
    IF i > Len(list) THEN 0
    ELSE IF list[i] = x THEN i
    ELSE indexOf(list, x, i + 1)

\* Array.prototype.splice(index, 1)
splice(list, i) ==
    [k \in 1..(Len(list) - 1) |-> IF k < i THEN list[k] ELSE list[k + 1]]


\* ------------------------------------------------- the machine as a value
\* Handlers are written as functions from machine to machine, so that a
\* handler that calls another (rebuild -> _swapAndDie, dispose ->
\* _releaseTexture) is the composition the code performs.
Machine ==
    [ tex |-> tex, Counter |-> Counter, nextHandle |-> nextHandle,
      cache |-> cache, pending |-> pending, releaseCalls |-> releaseCalls,
      handleReleases |-> handleReleases, lastUsage |-> lastUsage,
      derivedDisposed |-> derivedDisposed, steps |-> << >> ]

Did(m, what) == [m EXCEPT !.steps = Append(@, what)]

\* ------------------------------------------------------------ constructor
\* constructor(engine, source, delayAllocation): _uniqueId = _Counter++ and,
\* unless allocation is delayed, a hardware texture from the engine.
Construct(m, t, src, delayAllocation) ==
    LET h == IF delayAllocation THEN NULL ELSE m.nextHandle + 1
    IN  [m EXCEPT
            !.tex[t] = [FieldDefaults EXCEPT !.exists = TRUE,
                                             !.source = src,
                                             !.uniqueId = m.Counter,
                                             !.hardwareTexture = h],
            !.Counter = @ + 1,
            !.nextHandle = IF delayAllocation THEN @ ELSE @ + 1]

\* The object the next `new InternalTexture` yields.
NextObject(m) == m.Counter + 1

\* engine.createTexture / createRawTexture / ... : a new descriptor of the
\* requested kind, registered in the loaded-textures cache.
EngineCreate(m, src) ==
    LET t == NextObject(m)
    IN  [Construct(m, t, src, FALSE) EXCEPT !.cache = Append(@, t)]

\* ---------------------------------------------------- incrementReferences
incrementReferences(m, t) == [m EXCEPT !.tex[t].references = @ + 1]

\* -------------------------------------------------------------- updateSize
\* engine.updateTextureDimensions(texture, width, height, depth): the device
\* resizes its side of the texture, or throws when it cannot (ok = FALSE).
updateTextureDimensions(m, ok) ==
    IF ok
    THEN Did(m, "updateTextureDimensions")
    ELSE Did(Did(m, "updateTextureDimensions"), "throw")

setDimensions(m, this, width, height, depth) ==
    [Did(m, "setDimensions") EXCEPT
        !.tex[this].width = width,
        !.tex[this].height = height,
        !.tex[this].depth = depth,
        !.tex[this].baseWidth = width,
        !.tex[this].baseHeight = height,
        !.tex[this].baseDepth = depth,
        !.tex[this].size = width * height * depth]

updateSizeAssignFirst(m, this, width, height, depth, ok) ==
    LET d == IF depth = NULL THEN DefaultDepth ELSE depth
    IN  updateTextureDimensions(setDimensions(m, this, width, height, d), ok)

\* updateSize(width, height, depth = 1); depth = NULL: argument omitted.
\* An exception of the engine call leaves the method before any assignment.
updateSize(m, this, width, height, depth, ok) ==
    LET d == IF depth = NULL THEN DefaultDepth ELSE depth
        m1 == updateTextureDimensions(m, ok)
    IN  IF ok THEN setDimensions(m1, this, width, height, d) ELSE m1

setUsageOfTarget(m, this, target) ==
    IF m.tex[this].hardwareTexture # NULL
    THEN [Did(m, "setUsage") EXCEPT
            !.lastUsage = [handle |-> m.tex[this].hardwareTexture,
                           source |-> m.tex[target].source,
                           generateMipMaps |-> m.tex[target].generateMipMaps,
                           isCube |-> m.tex[target].isCube,
                           width |-> m.tex[target].width,
                           height |-> m.tex[target].height]]
    ELSE m

\* ----------------------------------------------------------- _swapAndDie
\* this._hardwareTexture?.setUsage(target._source, this.generateMipMaps,
\*                                 this.isCube, this.width, this.height)
setUsage(m, this, target) ==
    IF m.tex[this].hardwareTexture # NULL
    THEN [Did(m, "setUsage") EXCEPT
            !.lastUsage = [handle |-> m.tex[this].hardwareTexture,
                           source |-> m.tex[target].source,
                           generateMipMaps |-> m.tex[this].generateMipMaps,
                           isCube |-> m.tex[this].isCube,
                           width |-> m.tex[this].width,
                           height |-> m.tex[this].height]]
    ELSE m

moveHandleAndSize(m, this, target, swapAll) ==
    [Did(m, "swap") EXCEPT
        !.tex[target].hardwareTexture = m.tex[this].hardwareTexture,
        !.tex[target].baseWidth = m.tex[this].baseWidth,
        !.tex[target].isRGBD =
            IF swapAll THEN m.tex[this].isRGBD ELSE @]

\* target._hardwareTexture = this._hardwareTexture; swapAll copies _isRGBD
moveHandle(m, this, target, swapAll) ==
    [Did(m, "swap") EXCEPT
        !.tex[target].hardwareTexture = m.tex[this].hardwareTexture,
        !.tex[target].isRGBD =
            IF swapAll THEN m.tex[this].isRGBD ELSE @]

\* BaseTexture.dispose() of a derived texture
disposeDerived(m, d) == [m EXCEPT !.derivedDisposed[d] = @ + 1]

moveSlotNoDispose(m, this, target, slot) ==
    IF m.tex[this][slot] # NULL
    THEN [m EXCEPT !.tex[target][slot] = m.tex[this][slot]]
    ELSE m

\* One derived slot: if (this.slot) { if (target.slot) target.slot.dispose();
\*                                    target.slot = this.slot; }
moveSlot(m, this, target, slot) ==
    IF m.tex[this][slot] # NULL
    THEN LET m1 == IF m.tex[target][slot] # NULL
                   THEN disposeDerived(m, m.tex[target][slot])
                   ELSE m
         IN  [m1 EXCEPT !.tex[target][slot] = m.tex[this][slot]]
    ELSE m

updateCacheAlwaysPush(c, this, target) ==
    LET i == indexOf(c, this, 1)
        c1 == IF i # 0 THEN splice(c, i) ELSE c
    IN  Append(c1, target)

\* cache.indexOf(this) / splice, then cache.indexOf(target) / push
updateCache(c, this, target) ==
    LET i == indexOf(c, this, 1)
        c1 == IF i # 0 THEN splice(c, i) ELSE c
    IN  IF indexOf(c1, target, 1) = 0 THEN Append(c1, target) ELSE c1

swapAndDie(m, this, target, swapAll) ==
    LET m1 == setUsage(m, this, target)
        m2 == moveHandle(m1, this, target, swapAll)
        m3 == moveSlot(m2, this, target, "lodTextureHigh")
        m4 == moveSlot(m3, this, target, "lodTextureMid")
        m5 == moveSlot(m4, this, target, "lodTextureLow")
        m6 == moveSlot(m5, this, target, "irradianceTexture")
    IN  [m6 EXCEPT !.cache = updateCache(@, this, target)]

\* ---------------------------------------------------------------- dispose
\* engine._releaseTexture(texture): the device frees the handle the
\* descriptor holds and drops the descriptor from the loaded-textures cache.
releaseTexture(m, t) ==
    LET h == m.tex[t].hardwareTexture
        i == indexOf(m.cache, t, 1)
    IN  [Did(m, "release") EXCEPT
            !.releaseCalls[t] = @ + 1,
            !.handleReleases =
                IF h # NULL THEN [@ EXCEPT ![h] = @ + 1] ELSE @,
            !.cache = IF i # 0 THEN splice(@, i) ELSE @]

releaseBelowTwo(references) == references <= 1

\* if (this._references === 0)
releaseNeeded(references) == references = 0

dispose(m, t) ==
    LET m1 == [m EXCEPT !.tex[t].references = @ - 1,
                        !.tex[t].onLoadedObservable = 0,
                        !.tex[t].onErrorObservable = 0]
    IN  IF releaseNeeded(m1.tex[t].references)
        THEN [releaseTexture(m1, t) EXCEPT !.tex[t].hardwareTexture = NULL]
        ELSE m1


\* ---------------------------------------------------------------- _rebuild
clearWithoutWrapR(m, this) ==
    [Did(m, "clear") EXCEPT
        !.tex[this].isReady = FALSE,
        !.tex[this].cachedCoordinatesMode = NULL,
        !.tex[this].cachedWrapU = NULL,
        !.tex[this].cachedWrapV = NULL,
        !.tex[this].cachedAnisotropicFilteringLevel = NULL]

\* isReady = false and the five cached sampler values = null
clearForRebuild(m, this) ==
    [Did(m, "clear") EXCEPT
        !.tex[this].isReady = FALSE,
        !.tex[this].cachedCoordinatesMode = NULL,
        !.tex[this].cachedWrapU = NULL,
        !.tex[this].cachedWrapV = NULL,
        !.tex[this].cachedWrapR = NULL,
        !.tex[this].cachedAnisotropicFilteringLevel = NULL]

\* this.isReady = value
setIsReady(m, this, value) ==
    [Did(m, "isReady") EXCEPT !.tex[this].isReady = value]

swapAndSetReadyTrue(m, proxyInternalTexture, this, dataIsReady) ==
    setIsReady(swapAndDie(m, proxyInternalTexture, this, FALSE), this, TRUE)

\* swapAndSetIsReady of the onRebuildCallback path
swapAndSetIsReady(m, proxyInternalTexture, this, dataIsReady) ==
    setIsReady(swapAndDie(m, proxyInternalTexture, this, FALSE),
               this, dataIsReady)

urlOnLoadReadyFirst(m, temp, this) ==
    swapAndDie(setIsReady(m, this, TRUE), temp, this, FALSE)

\* onLoad given to engine.createTexture: (temp) => { ... }
urlOnLoad(m, temp, this) ==
    setIsReady(swapAndDie(m, temp, this, FALSE), this, TRUE)

\* onLoad given to engine.createCubeTexture: () => { proxy._swapAndDie ... }
\* `proxy` is the variable of _rebuild, unassigned (NULL here) until
\* createCubeTexture has returned; calling a method on it then throws.
cubeOnLoad(m, proxy, this) ==
    IF proxy = NULL
    THEN Did(m, "throw")
    ELSE setIsReady(swapAndDie(m, proxy, this, FALSE), this, TRUE)

\* onLoad given to engine.createPrefilteredCubeTexture: (proxy) => { ... }
prefilteredOnLoad(m, proxy, this) ==
    setIsReady(IF proxy # NULL THEN swapAndDie(m, proxy, this, FALSE) ELSE m,
               this, TRUE)

\* The engine (or the promise) keeps the completion until the load is done.
issue(m, kind, this, proxy, dataIsReady) ==
    [m EXCEPT !.pending = @ \cup { [kind |-> kind, target |-> this,
                                    proxy |-> proxy,
                                    isReady |-> dataIsReady] }]

rebuildRawReadyOnly(m, this, creation, src) ==
    setIsReady(EngineCreate(Did(m, creation), src), this, TRUE)

\* Raw, Raw3D, Raw2DArray, CubeRaw: create, proxy._swapAndDie(this, false),
\* this.isReady = true
rebuildRaw(m, this, creation, src) ==
    LET proxy == NextObject(m)
        m1 == EngineCreate(Did(m, creation), src)
    IN  setIsReady(swapAndDie(m1, proxy, this, FALSE), this, TRUE)

noRecreationFallsThrough(m, this) ==
    rebuildRaw(m, this, "createTexture", m.tex[this].source)

\* case Temp: break;  case CubeRawRGBD: return;  and the kinds the switch
\* does not list: nothing after the common prologue.
noRecreation(m, this) == m

\* Source kinds whose rebuild asks the engine for a replacement descriptor
Recreated ==
    { "Url", "Raw", "Raw3D", "Raw2DArray", "Dynamic", "Cube", "CubeRaw",
      "CubePrefiltered" }

\* Built-in strategies that hand an onLoad callback to the engine
invokesOnLoad(d) ==
    /\ ~d.onRebuildCallback.registered
    /\ d.source \in {"Url", "Cube", "CubePrefiltered"}

needsProxy(d) == d.onRebuildCallback.registered \/ d.source \in Recreated

\* The switch over this.source (no custom callback registered), after the
\* common prologue.  callbackSync: the engine invokes onLoad inside the
\* creation call; withProxy: what createPrefilteredCubeTexture hands to onLoad.
rebuildBuiltIn(m0, this, callbackSync, withProxy) ==
    LET d == m0.tex[this]
        proxy == NextObject(m0)
    IN  CASE d.source = "Temp" -> noRecreation(m0, this)
          [] d.source = "Url" ->
               LET m1 == EngineCreate(Did(m0, "createTexture"), "Url")
               IN  IF callbackSync
                   THEN urlOnLoad(m1, proxy, this)
                   ELSE issue(m1, "Url", this, proxy, TRUE)
          [] d.source = "Raw" ->
               rebuildRaw(m0, this, "createRawTexture", "Raw")
          [] d.source = "Raw3D" ->
               rebuildRaw(m0, this, "createRawTexture3D", "Raw3D")
          [] d.source = "Raw2DArray" ->
               rebuildRaw(m0, this, "createRawTexture2DArray", "Raw2DArray")
          [] d.source = "Dynamic" ->
               LET m1 == EngineCreate(Did(m0, "createDynamicTexture"),
                                      "Dynamic")
               IN  Did(swapAndDie(m1, proxy, this, FALSE),
                       "updateDynamicTexture")
          [] d.source = "Cube" ->
               LET m1 == EngineCreate(Did(m0, "createCubeTexture"), "Cube")
               IN  IF callbackSync
                   THEN cubeOnLoad(m1, NULL, this)
                   ELSE issue(m1, "Cube", this, proxy, TRUE)
          [] d.source = "CubeRaw" ->
               rebuildRaw(m0, this, "createRawCubeTexture", "CubeRaw")
          [] d.source = "CubeRawRGBD" -> noRecreation(m0, this)
          [] d.source = "CubePrefiltered" ->
               LET m1 == EngineCreate(
                            Did(m0, "createPrefilteredCubeTexture"),
                            "CubePrefiltered")
               IN  IF callbackSync
                   THEN prefilteredOnLoad(
                           m1, IF withProxy THEN proxy ELSE NULL, this)
                   ELSE issue(m1, "CubePrefiltered", this, proxy, TRUE)
          [] OTHER -> noRecreation(m0, this)

rebuildCallbackNoReturn(m0, this) ==
    LET data == m0.tex[this].onRebuildCallback
        proxy == NextObject(m0)
        m1 == EngineCreate(Did(m0, "onRebuildCallback"),
                           m0.tex[this].source)
        m2 == IF data.isAsync
              THEN issue(m1, "Promise", this, proxy, data.isReady)
              ELSE swapAndSetIsReady(m1, proxy, this, data.isReady)
    IN  rebuildBuiltIn(m2, this, FALSE, TRUE)

\* if (this.onRebuildCallback) { ...; return; } -- the callback produces the
\* replacement (or a promise of it) and says whether this is ready.
rebuildWithCallback(m0, this) ==
    LET data == m0.tex[this].onRebuildCallback
        proxy == NextObject(m0)
        m1 == EngineCreate(Did(m0, "onRebuildCallback"),
                           m0.tex[this].source)
    IN  IF data.isAsync
        THEN issue(m1, "Promise", this, proxy, data.isReady)
        ELSE swapAndSetIsReady(m1, proxy, this, data.isReady)

rebuild(m, this, callbackSync, withProxy) ==
    LET m0 == clearForRebuild(m, this)
    IN  IF m.tex[this].onRebuildCallback.registered
        THEN rebuildWithCallback(m0, this)
        ELSE rebuildBuiltIn(m0, this, callbackSync, withProxy)

\* The completion of an asynchronous recreation, delivered by the event loop.
complete(m, pd, withProxy) ==
    LET m0 == [m EXCEPT !.pending = @ \ {pd}]
    IN  CASE pd.kind = "Promise" ->
                swapAndSetIsReady(m0, pd.proxy, pd.target, pd.isReady)
          [] pd.kind = "Url" -> urlOnLoad(m0, pd.proxy, pd.target)
          [] pd.kind = "Cube" -> cubeOnLoad(m0, pd.proxy, pd.target)
          [] pd.kind = "CubePrefiltered" ->
                prefilteredOnLoad(m0, IF withProxy THEN pd.proxy ELSE NULL,
                                  pd.target)

\* ---------------------------------------------------------------- actions
Apply(m, c) ==
    /\ tex' = m.tex
    /\ Counter' = m.Counter
    /\ nextHandle' = m.nextHandle
    /\ cache' = m.cache
    /\ pending' = m.pending
    /\ releaseCalls' = m.releaseCalls
    /\ handleReleases' = m.handleReleases
    /\ lastUsage' = m.lastUsage
    /\ derivedDisposed' = m.derivedDisposed
    /\ steps' = m.steps
    /\ call' = c

\* Descriptors the application holds a reference to.  The replacement that
\* _rebuild asks the engine for is a local of _rebuild (or of its callback):
\* the application never gets hold of it.
Held(t) == tex[t].exists /\ tex[t].held

\* The application obtains a texture from the engine; ready tells whether
\* its initial load has completed.
CreateTexture(src, cb, ready) ==
    /\ Counter < MaxTex
    /\ LET t == NextObject(Machine)
       IN  Apply([EngineCreate(Machine, src) EXCEPT
                     !.tex[t].held = TRUE,
                     !.tex[t].onRebuildCallback = cb,
                     !.tex[t].isReady = ready],
                 Called("create", t, NULL, FALSE))

IncrementReferences(t) ==
    /\ Held(t)
    /\ tex[t].references < MaxRefs
    /\ Apply(incrementReferences(Machine, t),
             Called("incrementReferences", t, NULL, FALSE))

Dispose(t) ==
    /\ Held(t)
    /\ tex[t].references > -MaxUnder
    /\ releaseCalls[t] < MaxRelease
    /\ Apply(dispose(Machine, t), Called("dispose", t, NULL, FALSE))

\* onLoadedObservable.add / onErrorObservable.add
Observe(t, channel) ==
    /\ Held(t)
    /\ tex[t][channel] = 0
    /\ Apply([Machine EXCEPT !.tex[t][channel] = 1],
             Called("observe", t, NULL, FALSE))

\* The engine resolves the sampler state of a texture it binds and caches
\* it on the descriptor.
BindSampler(t) ==
    /\ Held(t)
    /\ tex[t].cachedCoordinatesMode = NULL
    /\ Apply([Machine EXCEPT
                 !.tex[t].cachedCoordinatesMode = 1,
                 !.tex[t].cachedWrapU = 1,
                 !.tex[t].cachedWrapV = 1,
                 !.tex[t].cachedWrapR = 1,
                 !.tex[t].cachedAnisotropicFilteringLevel = 1],
             Called("bind", t, NULL, FALSE))

UpdateSize(t, width, height, depth, ok) ==
    /\ Held(t)
    /\ Apply(updateSize(Machine, t, width, height, depth, ok),
             [Called("updateSize", t, NULL, FALSE) EXCEPT
                 !.args = [width |-> width, height |-> height,
                           depth |-> depth, ok |-> ok]])

SwapAndDie(this, target, swapAll) ==
    /\ Held(this)
    /\ Held(target)
    /\ this # target
    /\ \A d \in DerivedIds : derivedDisposed[d] < MaxDisposed
    /\ Apply(swapAndDie(Machine, this, target, swapAll),
             Called("swapAndDie", target, this, FALSE))

Rebuild(t, callbackSync, withProxy) ==
    /\ Held(t)
    /\ needsProxy(tex[t]) => Counter < MaxTex
    /\ Apply(rebuild(Machine, t, callbackSync, withProxy),
             Called("rebuild", t,
                    IF needsProxy(tex[t]) THEN NextObject(Machine) ELSE NULL,
                    callbackSync /\ invokesOnLoad(tex[t])))

Complete(pd, withProxy) ==
    /\ pd \in pending
    /\ Apply(complete(Machine, pd, withProxy),
             Called("complete", pd.target,
                    IF pd.kind = "CubePrefiltered" /\ ~withProxy
                    THEN NULL ELSE pd.proxy,
                    FALSE))

\* --------------------------------------------------------- specifications
Blank ==
    /\ nextHandle = Counter
    /\ cache = [i \in 1..Counter |-> i]
    /\ pending = {}
    /\ releaseCalls = [t \in TexIds |-> 0]
    /\ handleReleases = [h \in Handles |-> 0]
    /\ lastUsage = NoUsage
    /\ derivedDisposed = [d \in DerivedIds |-> 0]
    /\ call = NoCall
    /\ steps = << >>

\* Ownership: the application creates textures, disposes, rebuilds and
\* transfers them.
Init ==
    /\ tex = [t \in TexIds |-> FieldDefaults]
    /\ Counter = 0
    /\ Blank

Next ==
    \/ \E src \in {"Raw", "Url"} :
          Counter < MaxApp /\ CreateTexture(src, NoCallback, TRUE)
    \/ \E t \in TexIds : Dispose(t)
    \/ \E s, t \in TexIds : SwapAndDie(s, t, TRUE)
    \/ \E t \in TexIds : Rebuild(t, FALSE, TRUE)
    \/ \E pd \in pending : Complete(pd, TRUE)

Spec == Init /\ [][Next]_vars

\* Reference counting: owners are added and removed, observers registered.
NextRefs ==
    \/ \E ready \in BOOLEAN :
          Counter < MaxShared /\ CreateTexture("Raw", NoCallback, ready)
    \/ \E t \in TexIds : IncrementReferences(t)
    \/ \E t \in TexIds : Dispose(t)
    \/ \E t \in TexIds, ch \in {"onLoadedObservable", "onErrorObservable"} :
          Observe(t, ch)

SpecRefs == Init /\ [][NextRefs]_vars

\* Rebuild: one texture of any source kind, with or without a custom
\* rebuild callback, loaded or not, goes through context losses.
InitRebuild ==
    /\ \E src \in InternalTextureSource, cb \in Callbacks, ready \in BOOLEAN :
          tex = [t \in TexIds |->
                    IF t = NextObject([Counter |-> 0])
                    THEN [FieldDefaults EXCEPT
                            !.exists = TRUE, !.held = TRUE,
                            !.source = src, !.uniqueId = 0,
                            !.hardwareTexture = t,
                            !.onRebuildCallback = cb,
                            !.isReady = ready]
                    ELSE FieldDefaults]
    /\ Counter = Cardinality({t \in TexIds : tex[t].exists})
    /\ Blank

NextRebuild ==
    \/ \E t \in TexIds : BindSampler(t)
    \/ \E t \in TexIds, sync, withProxy \in BOOLEAN :
          Rebuild(t, sync, withProxy)
    \/ \E pd \in pending, withProxy \in BOOLEAN : Complete(pd, withProxy)
    \/ \E t \in TexIds : Dispose(t)

SpecRebuild == InitRebuild /\ [][NextRebuild]_vars

\* The application holds one loaded texture of source kind src with custom
\* rebuild callback cb.
OneTexture(src, cb) ==
    /\ tex = [t \in TexIds |->
                IF t = NextObject([Counter |-> 0])
                THEN [FieldDefaults EXCEPT
                        !.exists = TRUE, !.held = TRUE,
                        !.source = src, !.uniqueId = 0,
                        !.hardwareTexture = t,
                        !.onRebuildCallback = cb,
                        !.isReady = TRUE]
                ELSE FieldDefaults]
    /\ Counter = Cardinality({t \in TexIds : tex[t].exists})
    /\ Blank

\* Resize: a texture is resized (the device accepting or rejecting the new
\* dimensions) between rebuilds; one source kind for each way a rebuild
\* proceeds (asynchronous, synchronous, no recreation).
InitSize ==
    \E src \in {"Url", "Raw", "RenderTarget"} : OneTexture(src, NoCallback)

NextSize ==
    \/ \E t \in TexIds, w, h \in Dims, d \in {NULL} \cup Dims, ok \in BOOLEAN :
          UpdateSize(t, w, h, d, ok)
    \/ \E t \in TexIds : Rebuild(t, FALSE, TRUE)
    \/ \E pd \in pending : Complete(pd, TRUE)

SpecSize == InitSize /\ [][NextSize]_vars

\* Identity: a resized texture of any source kind goes through rebuilds on
\* every path (built-in, custom callback, callbacks delivered inside the
\* creation call or later, with or without a replacement).
InitIdentity ==
    \E src \in InternalTextureSource, cb \in Callbacks : OneTexture(src, cb)

NextIdentity ==
    \/ \E t \in TexIds, w, h \in Dims : UpdateSize(t, w, h, NULL, TRUE)
    \/ \E t \in TexIds, sync, withProxy \in BOOLEAN :
          Rebuild(t, sync, withProxy)
    \/ \E pd \in pending, withProxy \in BOOLEAN : Complete(pd, withProxy)

SpecIdentity == InitIdentity /\ [][NextIdentity]_vars

\* Sequences over TexIds without repeated entries.
NoDuplicates(c) == \A i, j \in 1..Len(c) : c[i] = c[j] => i = j

LoadedTexturesCaches ==
    { c \in UNION { [1..n -> TexIds] : n \in 0..MaxTex } : NoDuplicates(c) }

\* count textures of source kind src, constructed one after the other and
\* held by the application.
Textures(count, src) ==
    [t \in TexIds |->
        IF t <= count
        THEN [FieldDefaults EXCEPT
                !.exists = TRUE, !.held = TRUE, !.source = src,
                !.uniqueId = t - 1, !.hardwareTexture = t,
                !.isReady = TRUE]
        ELSE FieldDefaults]

\* Cache: the textures of the application are transferred into one another,
\* starting from any duplicate-free loaded-textures cache (textures enter
\* the cache on creation and leave it on release, in any order).
InitCache ==
    /\ tex = Textures(MaxTex, "Raw")
    /\ Counter = MaxTex
    /\ \E c \in LoadedTexturesCaches :
          /\ nextHandle = Counter
          /\ cache = c
          /\ pending = {}
          /\ releaseCalls = [t \in TexIds |-> 0]
          /\ handleReleases = [h \in Handles |-> 0]
          /\ lastUsage = NoUsage
          /\ derivedDisposed = [d \in DerivedIds |-> 0]
          /\ call = NoCall
          /\ steps = << >>

NextCache == \E s, t \in TexIds, swapAll \in BOOLEAN : SwapAndDie(s, t, swapAll)

SpecCache == InitCache /\ [][NextCache]_vars

\* this and target of _swapAndDie: the two descriptors of the slot runs.
TransferPair == 2

\* Where the derived textures are: each in one slot of one descriptor, or in
\* none; no two in the same slot.
Placements ==
    { p \in [DerivedIds -> {<< >>} \cup { << t, s >> : t \in 1..TransferPair,
                                                       s \in Slots }] :
        \A d, e \in DerivedIds : (p[d] = p[e] /\ p[d] # << >>) => d = e }

Placed(p, t, s) ==
    IF \E d \in DerivedIds : p[d] = << t, s >>
    THEN CHOOSE d \in DerivedIds : p[d] = << t, s >>
    ELSE NULL

\* Slots: two textures holding derived textures (LOD levels, irradiance) in
\* any of their slots are transferred into one another.
InitSlots ==
    /\ \E p \in Placements :
          tex = [t \in TexIds |->
                    IF t <= TransferPair
                    THEN [Textures(TransferPair, "CubePrefiltered")[t] EXCEPT
                            !.lodTextureHigh = Placed(p, t, "lodTextureHigh"),
                            !.lodTextureMid = Placed(p, t, "lodTextureMid"),
                            !.lodTextureLow = Placed(p, t, "lodTextureLow"),
                            !.irradianceTexture =
                                Placed(p, t, "irradianceTexture")]
                    ELSE FieldDefaults]
    /\ Counter = TransferPair
    /\ Blank

NextSlots == \E s, t \in TexIds, swapAll \in BOOLEAN : SwapAndDie(s, t, swapAll)

SpecSlots == InitSlots /\ [][NextSlots]_vars

\* Usage: a descriptor of any shape (mip maps, cube, width, height), with or
\* without a hardware texture, and a freshly constructed descriptor of any
\* source kind and shape flags are transferred into one another.
InitUsage ==
    /\ \E mips, cube, targetMips, targetCube, allocated \in BOOLEAN,
          w, h \in Dims, src \in InternalTextureSource :
          tex = [t \in TexIds |->
                    CASE t = NextObject([Counter |-> 0]) ->
                            [Textures(TransferPair, "Unknown")[t] EXCEPT
                                !.generateMipMaps = mips,
                                !.isCube = cube,
                                !.width = w,
                                !.height = h,
                                !.hardwareTexture =
                                    IF allocated THEN @ ELSE NULL]
                      [] t = NextObject([Counter |-> 1]) ->
                            [Textures(TransferPair, src)[t] EXCEPT
                                !.generateMipMaps = targetMips,
                                !.isCube = targetCube]
                      [] OTHER -> FieldDefaults]
    /\ Counter = TransferPair
    /\ Blank

NextUsage == \E s, t \in TexIds, swapAll \in BOOLEAN : SwapAndDie(s, t, swapAll)

SpecUsage == InitUsage /\ [][NextUsage]_vars


\* ------------------------------------------------------------ properties
IsStep(op, t) == call'.op = op /\ call'.t = t

InCache(c, t) == indexOf(c, t, 1) # 0

Before(log, a, b) ==
    /\ indexOf(log, a, 1) # 0
    /\ indexOf(log, b, 1) # 0
    /\ indexOf(log, a, 1) < indexOf(log, b, 1)

Creations ==
    { "createTexture", "createRawTexture", "createRawTexture3D",
      "createRawTexture2DArray", "createDynamicTexture", "createCubeTexture",
      "createRawCubeTexture", "createPrefilteredCubeTexture" }

Logged(log, events) == \E i \in 1..Len(log) : log[i] \in events

SamplerCleared(d) ==
    /\ d.cachedCoordinatesMode = NULL
    /\ d.cachedWrapU = NULL
    /\ d.cachedWrapV = NULL
    /\ d.cachedWrapR = NULL
    /\ d.cachedAnisotropicFilteringLevel = NULL

\* C1: in every reachable state a hardware handle is referenced by at most
\* one descriptor; after a transfer the source no longer holds it.
C1_SingleOwner ==
    \A a, b \in TexIds :
        ( /\ tex[a].exists /\ tex[b].exists
          /\ tex[a].hardwareTexture # NULL
          /\ tex[a].hardwareTexture = tex[b].hardwareTexture ) => a = b

\* C2: the release operation is invoked for a descriptor at most once, only
\* by the dispose() that takes the count from 1 to 0, and a dispose() after
\* that changes nothing on the descriptor.
C2_ReleasedExactlyOnce ==
    [][\A t \in TexIds :
          /\ releaseCalls'[t] <= 1
          /\ releaseCalls'[t] # releaseCalls[t] =>
                (IsStep("dispose", t) /\ tex[t].references = 1)
          /\ (IsStep("dispose", t) /\ releaseCalls[t] >= 1) =>
                (tex'[t] = tex[t] /\ releaseCalls'[t] = releaseCalls[t])
      ]_vars

\* C3: the reference count of every descriptor is >= 0 in every reachable
\* state.
C3_ReferencesNonNegative ==
    \A t \in TexIds : tex[t].references >= 0

\* C4: no hardware handle is given to the device release operation more
\* than once.
C4_NoDoubleRelease ==
    \A h \in Handles : handleReleases[h] <= 1

\* C5: a dispose() that leaves the count above zero clears both notification
\* channels, invokes no release and leaves the handle reference unchanged;
\* a release happens only in the dispose() that brings the count to zero.
C5_PartialDispose ==
    [][\A t \in TexIds :
          /\ (IsStep("dispose", t) /\ tex'[t].references > 0) =>
                /\ tex'[t].references = tex[t].references - 1
                /\ tex'[t].onLoadedObservable = 0
                /\ tex'[t].onErrorObservable = 0
                /\ releaseCalls' = releaseCalls
                /\ handleReleases' = handleReleases
                /\ tex'[t].hardwareTexture = tex[t].hardwareTexture
          /\ releaseCalls'[t] # releaseCalls[t] =>
                (IsStep("dispose", t) /\ tex'[t].references = 0)
      ]_vars

\* A dispose() has left the count of a shared descriptor at 1: the handle is
\* still there and nothing was released.
C5_Witness ==
    \E t \in TexIds :
        /\ call.op = "dispose" /\ call.t = t
        /\ tex[t].references = 1
        /\ tex[t].hardwareTexture # NULL
        /\ releaseCalls[t] = 0
        /\ handleReleases[tex[t].hardwareTexture] = 0


\* C6 (as claimed): a completion delivered to a descriptor whose count is
\* already zero or below writes the replacement's handle into it, marks it
\* ready and puts it back into the cache; dispose cancels nothing.
C6_CompletionAfterDispose ==
    [][\A t \in TexIds :
          /\ IsStep("dispose", t) => pending' = pending
          /\ (IsStep("complete", t) /\ tex[t].references <= 0
                 /\ call'.from # NULL) =>
                /\ tex'[t].hardwareTexture = tex[call'.from].hardwareTexture
                /\ tex'[t].hardwareTexture # NULL
                /\ tex'[t].isReady
                /\ InCache(cache', t)
      ]_vars

\* C6 (amended): as above, but isReady becomes true for Url, Cube and
\* CubePrefiltered and the callback's own ready flag for an asynchronous
\* custom callback.
C6_CompletionAfterDisposeFlag ==
    [][\A t \in TexIds :
          /\ IsStep("dispose", t) => pending' = pending
          /\ (IsStep("complete", t) /\ tex[t].references <= 0
                 /\ call'.from # NULL) =>
                /\ tex'[t].hardwareTexture = tex[call'.from].hardwareTexture
                /\ tex'[t].hardwareTexture # NULL
                /\ \E pd \in pending \ pending' :
                      /\ pd.target = t /\ pd.proxy = call'.from
                      /\ tex'[t].isReady =
                            IF pd.kind = "Promise"
                            THEN tex[t].onRebuildCallback.isReady
                            ELSE TRUE
                /\ InCache(cache', t)
      ]_vars

\* A completion has just been delivered to a descriptor that was disposed
\* to zero (released once, out of the cache, handle null until then).
C6_Witness ==
    \E t \in TexIds :
        /\ call.op = "complete" /\ call.t = t /\ call.from # NULL
        /\ tex[t].references = 0
        /\ releaseCalls[t] = 1
        /\ tex[t].hardwareTexture = tex[call.from].hardwareTexture
        /\ tex[t].hardwareTexture # NULL
        /\ handleReleases[tex[t].hardwareTexture] = 0
        /\ InCache(cache, t)

\* C7: while an asynchronous recreation of a descriptor is in flight, its
\* isReady is false.
C7_NotReadyWhileInFlight ==
    \A t \in TexIds :
        (\E pd \in pending : pd.target = t) => ~tex[t].isReady

BuiltInUrl(d) == d.source = "Url" /\ ~d.onRebuildCallback.registered

\* C8: Url, no custom callback.  rebuild() leaves isReady false and the load
\* in flight; isReady changes only in rebuild() or in a load callback; the
\* callback installs the replacement's handle and then sets isReady.
C8_UrlRebuild ==
    [][\A t \in TexIds : BuiltInUrl(tex[t]) =>
          /\ (IsStep("rebuild", t) /\ ~call'.sync) =>
                /\ ~tex'[t].isReady
                /\ \E pd \in pending' \ pending :
                      pd.target = t /\ pd.proxy = call'.from
          /\ tex'[t].isReady # tex[t].isReady =>
                (call'.t = t /\ call'.op \in {"rebuild", "complete"})
          /\ (IsStep("complete", t)
                 \/ (IsStep("rebuild", t) /\ call'.sync)) =>
                /\ tex'[t].hardwareTexture = tex'[call'.from].hardwareTexture
                /\ tex'[t].hardwareTexture # NULL
                /\ tex'[t].isReady
                /\ Before(steps', "swap", "isReady")
      ]_vars

\* The load callback of a rebuilt Url texture has fired.
C8_Witness ==
    \E t \in TexIds :
        /\ call.op = "complete" /\ call.t = t
        /\ BuiltInUrl(tex[t])
        /\ tex[t].isReady
        /\ tex[t].hardwareTexture = tex[call.from].hardwareTexture
        /\ tex[t].hardwareTexture # NULL
        /\ call.from # t

NoStrategy ==
    { "Temp", "CubeRawRGBD", "Unknown", "RenderTarget", "MultiRenderTarget",
      "DepthStencil", "Depth" }

BuiltInNoop(d) == d.source \in NoStrategy /\ ~d.onRebuildCallback.registered

\* C9 (as claimed): for the kinds without a recreation strategy rebuild()
\* creates nothing, transfers nothing and leaves isReady as it was.
C9_NoopRebuild ==
    [][\A t \in TexIds : (BuiltInNoop(tex[t]) /\ IsStep("rebuild", t)) =>
          /\ Counter' = Counter /\ nextHandle' = nextHandle
          /\ ~Logged(steps', Creations \cup {"swap", "onRebuildCallback"})
          /\ pending' = pending /\ cache' = cache
          /\ tex'[t].hardwareTexture = tex[t].hardwareTexture
          /\ tex'[t].isReady = tex[t].isReady
      ]_vars

\* C9 (amended): ... creates nothing and transfers nothing; it sets isReady
\* to false, clears the cached sampler values and changes nothing else.
C9_NoopRebuildClears ==
    [][\A t \in TexIds : (BuiltInNoop(tex[t]) /\ IsStep("rebuild", t)) =>
          /\ Counter' = Counter /\ nextHandle' = nextHandle
          /\ ~Logged(steps', Creations \cup {"swap", "onRebuildCallback"})
          /\ pending' = pending /\ cache' = cache
          /\ tex' = [tex EXCEPT ![t] =
                [@ EXCEPT !.isReady = FALSE,
                          !.cachedCoordinatesMode = NULL,
                          !.cachedWrapU = NULL,
                          !.cachedWrapV = NULL,
                          !.cachedWrapR = NULL,
                          !.cachedAnisotropicFilteringLevel = NULL]]
      ]_vars

\* rebuild() has just run on a texture of a kind without a strategy.
C9_Witness ==
    \E t \in TexIds :
        /\ call.op = "rebuild" /\ call.t = t
        /\ BuiltInNoop(tex[t])
        /\ ~tex[t].isReady
        /\ steps = << "clear" >>
        /\ tex[t].hardwareTexture # NULL

\* C10: every rebuild() starts by setting isReady to false and the five
\* cached sampler values to null, before the custom callback or any engine
\* creation call; isReady is true afterwards only if a completion that ran
\* inside the call set it.
C10_RebuildPrologue ==
    [][\A t \in TexIds : IsStep("rebuild", t) =>
          /\ steps'[1] = "clear"
          /\ \A i \in 2..Len(steps') : steps'[i] # "clear"
          /\ SamplerCleared(tex'[t])
          /\ tex'[t].isReady => Before(steps', "clear", "isReady")
          /\ (tex[t].onRebuildCallback.registered
                 \/ tex[t].source \in Recreated) =>
                Logged(steps', Creations \cup {"onRebuildCallback"})
      ]_vars

\* rebuild() has run the custom callback of a texture: the callback came
\* after the reset.
C10_Witness ==
    \E t \in TexIds :
        /\ call.op = "rebuild" /\ call.t = t
        /\ tex[t].onRebuildCallback.registered
        /\ Before(steps, "clear", "onRebuildCallback")
        /\ SamplerCleared(tex[t])
        /\ ~tex[t].isReady


\* C11: with a custom callback registered, rebuild() invokes it and makes no
\* built-in creation call.  Asynchronous: nothing is transferred by rebuild()
\* and the descriptor stays not ready; the transfer happens when the promise
\* resolves, and only then isReady takes the callback's flag.  Synchronous:
\* transfer, then isReady, inside rebuild().
C11_CustomCallback ==
    [][\A t \in TexIds : tex[t].onRebuildCallback.registered =>
          LET data == tex[t].onRebuildCallback
          IN  /\ IsStep("rebuild", t) =>
                    /\ Logged(steps', {"onRebuildCallback"})
                    /\ ~Logged(steps', Creations)
                    /\ Counter' = Counter + 1
              /\ (IsStep("rebuild", t) /\ data.isAsync) =>
                    /\ ~Logged(steps', {"swap", "setUsage", "isReady"})
                    /\ tex'[t].hardwareTexture = tex[t].hardwareTexture
                    /\ ~tex'[t].isReady
                    /\ \E pd \in pending' \ pending :
                          /\ pd.kind = "Promise" /\ pd.target = t
                          /\ pd.proxy = call'.from
              /\ ((IsStep("rebuild", t) /\ ~data.isAsync)
                     \/ IsStep("complete", t)) =>
                    /\ Before(steps', "swap", "isReady")
                    /\ tex'[t].hardwareTexture =
                          tex'[call'.from].hardwareTexture
                    /\ tex'[t].isReady = data.isReady
              /\ (IsStep("rebuild", t) /\ ~data.isAsync) =>
                    pending' = pending
      ]_vars

\* The promise of an asynchronous custom callback has resolved: the handle
\* of its replacement is installed and isReady is the callback's flag.
C11_Witness ==
    \E t \in TexIds :
        /\ call.op = "complete" /\ call.t = t
        /\ tex[t].onRebuildCallback.registered
        /\ tex[t].onRebuildCallback.isAsync
        /\ tex[t].onRebuildCallback.isReady
        /\ tex[t].isReady
        /\ tex[t].hardwareTexture = tex[call.from].hardwareTexture
        /\ tex[t].hardwareTexture # NULL
        /\ tex[t].source = "Url"

SynchronousKinds == { "Raw", "Raw3D", "Raw2DArray", "CubeRaw" }

BuiltInRaw(d) ==
    d.source \in SynchronousKinds /\ ~d.onRebuildCallback.registered

\* C12: Raw, Raw3D, Raw2DArray and CubeRaw without a custom callback: when
\* rebuild() returns, the descriptor holds the handle of the replacement just
\* created, isReady is true, the transfer came before isReady, and nothing is
\* left in flight.
C12_RawRebuild ==
    [][\A t \in TexIds : (BuiltInRaw(tex[t]) /\ IsStep("rebuild", t)) =>
          /\ Logged(steps', Creations)
          /\ call'.from # NULL /\ ~tex[call'.from].exists
          /\ tex'[call'.from].exists
          /\ tex'[t].hardwareTexture = tex'[call'.from].hardwareTexture
          /\ tex'[t].hardwareTexture = nextHandle'
          /\ nextHandle' = nextHandle + 1
          /\ tex'[t].isReady
          /\ Before(steps', "swap", "isReady")
          /\ pending' = pending
      ]_vars

\* rebuild() of a CubeRaw texture has returned.
C12_Witness ==
    \E t \in TexIds :
        /\ call.op = "rebuild" /\ call.t = t
        /\ tex[t].source = "CubeRaw" /\ BuiltInRaw(tex[t])
        /\ tex[t].isReady
        /\ tex[t].hardwareTexture = nextHandle
        /\ call.from # t
        /\ tex[t].hardwareTexture = tex[call.from].hardwareTexture

Dimensions(d) ==
    << d.width, d.height, d.depth,
       d.baseWidth, d.baseHeight, d.baseDepth, d.size >>

BaseDimensions(d) == << d.baseWidth, d.baseHeight, d.baseDepth >>

\* C13: a rebuild (built-in for every source kind, or through the custom
\* callback), its completion and the transfer they perform never change the
\* unique id of a descriptor nor its baseWidth, baseHeight, baseDepth; the
\* base dimensions of a descriptor change only in its own updateSize.
C13_IdentityAndBaseSize ==
    [][\A t \in TexIds : tex[t].exists =>
          /\ tex'[t].uniqueId = tex[t].uniqueId
          /\ BaseDimensions(tex'[t]) # BaseDimensions(tex[t]) =>
                IsStep("updateSize", t)
      ]_vars

\* A resized texture with a custom asynchronous callback has been rebuilt:
\* it holds the handle of a replacement whose unique id and base dimensions
\* differ from its own.
C13_Witness ==
    \E t, p \in TexIds :
        /\ call.op = "complete" /\ call.t = t /\ call.from = p
        /\ tex[t].onRebuildCallback.registered
        /\ tex[t].hardwareTexture = tex[p].hardwareTexture
        /\ tex[t].uniqueId # tex[p].uniqueId
        /\ tex[t].baseWidth = MaxDim
        /\ BaseDimensions(tex[t]) # BaseDimensions(tex[p])

Occurrences(c, t) == Cardinality({ i \in 1..Len(c) : c[i] = t })

\* C14: from a loaded-textures cache without duplicates, this._swapAndDie(
\* target) leaves a cache without duplicates that holds target exactly once
\* and does not hold this, whichever of the two was in the cache before; the
\* same transfer performed again leaves the cache as it is.
C14_CacheAfterTransfer ==
    [][\A this, target \in TexIds :
          (IsStep("swapAndDie", target) /\ call'.from = this
              /\ NoDuplicates(cache)) =>
             /\ Occurrences(cache', target) = 1
             /\ Occurrences(cache', this) = 0
             /\ NoDuplicates(cache')
             /\ \A u \in TexIds \ {this, target} :
                   Occurrences(cache', u) = Occurrences(cache, u)
             /\ (call.op = "swapAndDie" /\ call.t = target
                    /\ call.from = this) => cache' = cache
      ]_vars

\* A transfer has left its source out of the cache and its target behind
\* the third texture.
C14_Witness ==
    \E this, target, other \in TexIds :
        /\ call.op = "swapAndDie" /\ call.t = target /\ call.from = this
        /\ other \notin {this, target}
        /\ cache = << other, target >>
        /\ tex[target].hardwareTexture = tex[this].hardwareTexture

\* C15: in this._swapAndDie(target), for each of the four derived slots on
\* its own: if this holds a texture there, the one target held (if any) is
\* disposed and target's slot holds the texture of this; if this holds none,
\* target's slot keeps its value and nothing is disposed for that slot.
C15_DerivedSlots ==
    [][\A this, target \in TexIds :
          (IsStep("swapAndDie", target) /\ call'.from = this) =>
             /\ \A s \in Slots :
                   tex'[target][s] =
                      IF tex[this][s] # NULL THEN tex[this][s]
                                             ELSE tex[target][s]
             /\ \A d \in DerivedIds :
                   derivedDisposed'[d] = derivedDisposed[d] +
                      Cardinality({ s \in Slots : /\ tex[this][s] # NULL
                                                  /\ tex[target][s] = d })
             /\ \A s \in Slots : tex'[this][s] = tex[this][s]
      ]_vars

\* A transfer has replaced the irradiance texture of the target, which was
\* disposed, and has left the target's high LOD texture in place.
C15_Witness ==
    \E this, target \in TexIds, d, e \in DerivedIds :
        /\ call.op = "swapAndDie" /\ call.t = target /\ call.from = this
        /\ d # e
        /\ tex[this].irradianceTexture = d
        /\ tex[target].irradianceTexture = d
        /\ derivedDisposed[d] = 0
        /\ derivedDisposed[e] = 1
        /\ \A s \in Slots : tex[target][s] # e
        /\ tex[this].lodTextureHigh = NULL

\* C16: updateSize(w, h, d) calls the device first.  Accepted: width, height,
\* depth and their base counterparts are (w, h, d) and the size is w*h*d,
\* with d = 1 when omitted.  Rejected: the exception leaves the method and
\* none of the seven fields has changed.
C16_UpdateSize ==
    [][\A t \in TexIds : IsStep("updateSize", t) =>
          LET w == call'.args.width
              h == call'.args.height
              d == IF call'.args.depth = NULL THEN 1 ELSE call'.args.depth
          IN  /\ steps'[1] = "updateTextureDimensions"
              /\ call'.args.ok =>
                    /\ Dimensions(tex'[t]) = << w, h, d, w, h, d, w * h * d >>
                    /\ ~Logged(steps', {"throw"})
              /\ ~call'.args.ok =>
                    /\ Dimensions(tex'[t]) = Dimensions(tex[t])
                    /\ steps'[Len(steps')] = "throw"
              /\ \A u \in TexIds \ {t} : tex'[u] = tex[u]
      ]_vars

\* A texture resized to the largest dimensions was to be resized again and
\* the device rejected it.
C16_Witness ==
    \E t \in TexIds :
        /\ call.op = "updateSize" /\ call.t = t
        /\ ~call.args.ok /\ call.args.depth = NULL
        /\ Logged(steps, {"throw"})
        /\ Dimensions(tex[t]) = << MaxDim, MaxDim, MaxDim, MaxDim, MaxDim,
                                   MaxDim, MaxDim * MaxDim * MaxDim >>

\* C17: for Url, Cube and CubePrefiltered without a custom callback, a
\* rebuild or its completion assigns isReady only after having transferred
\* the replacement's handle into the descriptor -- also when the
\* CubePrefiltered callback is invoked without a replacement.
C17_ReadyOnlyAfterTransfer ==
    [][\A t \in TexIds :
          ( /\ invokesOnLoad(tex[t])
            /\ IsStep("rebuild", t) \/ IsStep("complete", t)
            /\ Logged(steps', {"isReady"}) ) =>
              /\ Before(steps', "swap", "isReady")
              /\ call'.from # NULL
              /\ tex'[t].hardwareTexture = tex'[call'.from].hardwareTexture
      ]_vars

\* What remains of _swapAndDie when this holds no hardware texture: the
\* (null) handle is assigned, the cache is updated, no usage is notified.
TransferWithoutHandle(this, target) ==
    /\ ~Logged(steps', {"setUsage"})
    /\ lastUsage' = lastUsage
    /\ Logged(steps', {"swap"})
    /\ tex'[target].hardwareTexture = NULL
    /\ Occurrences(cache', target) = 1
    /\ Occurrences(cache', this) = 0

\* C18 as stated: the handle of this is notified, before it is assigned to
\* target, of target's source kind, target's mip flag, target's cube flag
\* and target's width and height; without a handle nothing is notified and
\* the remaining steps run.
C18_UsageOfTarget ==
    [][\A this, target \in TexIds :
          (IsStep("swapAndDie", target) /\ call'.from = this) =>
             IF tex[this].hardwareTexture # NULL
             THEN /\ Before(steps', "setUsage", "swap")
                  /\ lastUsage' =
                        [handle |-> tex[this].hardwareTexture,
                         source |-> tex[target].source,
                         generateMipMaps |-> tex[target].generateMipMaps,
                         isCube |-> tex[target].isCube,
                         width |-> tex[target].width,
                         height |-> tex[target].height]
             ELSE TransferWithoutHandle(this, target)
      ]_vars

\* C18 amended: the handle of this is notified, before it is assigned to
\* target, of target's source kind and of the mip flag, cube flag, width and
\* height of this; without a handle nothing is notified and the remaining
\* steps run.
C18_UsageOfSource ==
    [][\A this, target \in TexIds :
          (IsStep("swapAndDie", target) /\ call'.from = this) =>
             IF tex[this].hardwareTexture # NULL
             THEN /\ Before(steps', "setUsage", "swap")
                  /\ lastUsage' =
                        [handle |-> tex[this].hardwareTexture,
                         source |-> tex[target].source,
                         generateMipMaps |-> tex[this].generateMipMaps,
                         isCube |-> tex[this].isCube,
                         width |-> tex[this].width,
                         height |-> tex[this].height]
                  /\ tex'[target].hardwareTexture = tex[this].hardwareTexture
             ELSE TransferWithoutHandle(this, target)
      ]_vars

\* A handle has moved into a target whose source kind, mip flag, cube flag
\* and size all differ from those of the descriptor it came from, and was
\* notified of the target's source kind with the other values of its origin.
C18_Witness ==
    \E this, target \in TexIds :
        /\ call.op = "swapAndDie" /\ call.t = target /\ call.from = this
        /\ tex[target].hardwareTexture = lastUsage.handle
        /\ lastUsage.handle # NULL
        /\ lastUsage.source = "Cube" /\ tex[this].source # "Cube"
        /\ lastUsage.generateMipMaps /\ ~tex[target].generateMipMaps
        /\ lastUsage.isCube /\ ~tex[target].isCube
        /\ lastUsage.width = 1 /\ tex[target].width = 0
        /\ lastUsage.height = MaxDim /\ tex[target].height = 0

\* C19: for Url, Cube and CubePrefiltered without a custom callback, the
\* completion callback, given the replacement by the engine, transfers the
\* replacement's handle into the descriptor and marks it ready, both when it
\* is delivered later and when the engine invokes it inside the creation call.
C19_CallbackAtAnyTime ==
    [][\A t \in TexIds :
          ( /\ invokesOnLoad(tex[t])
            /\ \/ Rebuild(t, TRUE, TRUE)
               \/ \E pd \in pending : pd.target = t /\ Complete(pd, TRUE) ) =>
              /\ ~Logged(steps', {"throw"})
              /\ Before(steps', "swap", "isReady")
              /\ tex'[t].hardwareTexture = tex'[call'.from].hardwareTexture
              /\ tex'[t].isReady
      ]_vars

\* C20: _swapAndDie never disposes a derived texture that it leaves installed
\* in a slot of its target, also when the same source is transferred into
\* the same target again.
C20_InstalledNotDisposed ==
    [][\A target \in TexIds : IsStep("swapAndDie", target) =>
          \A s \in Slots :
             tex'[target][s] # NULL =>
                derivedDisposed'[tex'[target][s]] =
                   derivedDisposed[tex'[target][s]]
      ]_vars

====
